---------------------------- MODULE Spec2Model ----------------------------
(***************************************************************************)
(* A model of src/graph.py: three charting pipelines run one after the     *)
(* other by the __main__ block.                                            *)
(*                                                                         *)
(*   create_tournament_heatmaps  outcome matrix -> df_red -> annotations,  *)
(*                               df_blue = transpose + complement          *)
(*   create_win_rate_chart       wins/losses -> win rate -> sorted bars    *)
(*   create_runtime_charts       two timing tables -> two bar charts       *)
(*                                                                         *)
(* The tables are literals in the source.  The model also runs the same    *)
(* code on other tables of the same form, drawn from bounded sets, so      *)
(* that statements about "every matrix" or "every record" are checked on   *)
(* more than the one literal.  Indices are 1-based here, 0-based in the    *)
(* source.                                                                 *)
(*                                                                         *)
(* Not modelled: colours, figure sizes, fonts, plt.show(), and a failing   *)
(* savefig (the file system is assumed writable).                          *)
(***************************************************************************)
EXTENDS Integers, Sequences, FiniteSets, TLC

(***************************************************************************)
(* Bounds of the model.                                                    *)
(***************************************************************************)
MaxN == 3          \* largest matrix side and label count drawn in Init
MaxRec == 3        \* most win/loss records drawn in Init
MaxGames == 2      \* largest wins or losses counter drawn in Init
MaxCat == 3        \* most categories of a timing table drawn in Init

(***************************************************************************)
(* float64 values.  A finite value is the exact fraction <<num, den>> in   *)
(* lowest terms with den > 0; NaN is <<0, 0>>; +inf is <<1, 0>>.  The      *)
(* numbers of this program are quotients of small integers, on which IEEE  *)
(* division is correctly rounded: equal fractions give equal doubles and   *)
(* the order of fractions is the order of the doubles.                     *)
(***************************************************************************)
RECURSIVE GCD(_, _)
GCD(a, b) == IF b = 0 THEN a ELSE GCD(b, a % b)

Abs(a) == IF a < 0 THEN -a ELSE a

NaN == <<0, 0>>

Norm(n, d) ==
    IF d = 0
    THEN (IF n = 0 THEN NaN ELSE IF n > 0 THEN <<1, 0>> ELSE <<-1, 0>>)
    ELSE LET g == GCD(Abs(n), Abs(d))
             s == IF d < 0 THEN -1 ELSE 1
         IN  <<(s * n) \div g, (s * d) \div g>>

F(n) == <<n, 1>>
Zero == F(0)
One == F(1)

isna(x) == x = NaN
notna(x) == ~isna(x)

FSub(a, b) ==
    IF isna(a) \/ isna(b) THEN NaN
    ELSE Norm(a[1] * b[2] - b[1] * a[2], a[2] * b[2])

FMul(a, b) ==
    IF isna(a) \/ isna(b) THEN NaN
    ELSE Norm(a[1] * b[1], a[2] * b[2])

\* numpy true division: 0/0 is NaN, x/0 is inf, no exception is raised.
FDiv(a, b) ==
    IF isna(a) \/ isna(b) THEN NaN
    ELSE Norm(a[1] * b[2], a[2] * b[1])

\* IEEE ==: false whenever an operand is NaN.
FEq(a, b) == notna(a) /\ notna(b) /\ a = b

\* IEEE <: false whenever an operand is NaN.
FLess(a, b) ==
    /\ notna(a) /\ notna(b)
    /\ IF a[2] = 0 \/ b[2] = 0
       THEN (a # b /\ (b = <<1, 0>> \/ a = <<-1, 0>>))
       ELSE a[1] * b[2] < b[1] * a[2]

(***************************************************************************)
(* The literal tables of the source.                                       *)
(***************************************************************************)
LiteralMatrix ==
    << <<NaN,  One,  One,  One,  One>>,
       <<Zero, NaN,  One,  One,  One>>,
       <<Zero, Zero, NaN,  Zero, One>>,
       <<Zero, One,  One,  NaN,  One>>,
       <<One,  One,  One,  Zero, NaN>> >>

LiteralLabels ==
    << "Peripheral\nControl", "Orb\nDifference", "Territory\nControl",
       "Cascade\nPotential", "Chain Reaction+\nConversion Pot." >>

LiteralData ==
    [ Heuristic |-> << "Peripheral Control", "Cascade Potential",
                       "Orb Difference",
                       "Chain Reaction + Conversion Potential",
                       "Territory Control" >>,
      Wins      |-> <<7, 6, 4, 3, 2>>,
      Losses    |-> <<1, 2, 4, 5, 6>> ]

RuntimeLabels ==
    << "Peripheral Control", "Orb Difference", "Territory Control",
       "Cascade Potential", "Chain Reaction+" >>

LiteralRedPlayerData ==
    [ Heuristic |-> RuntimeLabels, Time |-> <<74, 126, 106, 104, 75>> ]

LiteralBluePlayerData ==
    [ Heuristic |-> RuntimeLabels, Time |-> <<51, 140, 50, 164, 170>> ]

VARIABLES
    pc,                 \* where the run is
    err,                \* the exception that ended the run, or "none"
    saved,              \* the files written by savefig, in order
    matrix,             \* the outcome matrix (np.array)
    heuristics_labels,  \* the row and column labels
    df_red,             \* DataFrame(matrix, index=labels, columns=labels)
    df_blue,            \* the flipped frame
    i, j,               \* the annotation loops' indices
    ax1_text,           \* the ax1.text calls made, as <<i, j, text>>
    ax2_text,           \* the ax2.text calls made, as <<i, j, text>>
    data,               \* the win/loss table
    df,                 \* data with its 'Win Rate (%)' column
    barplot,            \* the bars of the win-rate chart, left to right
    red_player_data,    \* timing table, heuristic as Red
    blue_player_data,   \* timing table, heuristic as Blue
    ax1_bars,           \* the bars of the left runtime chart
    ax2_bars            \* the bars of the right runtime chart

vars == << pc, err, saved, matrix, heuristics_labels, df_red, df_blue, i, j,
           ax1_text, ax2_text, data, df, barplot, red_player_data,
           blue_player_data, ax1_bars, ax2_bars >>

heatVars == << matrix, heuristics_labels, df_red, df_blue, i, j,
               ax1_text, ax2_text >>
rateVars == << data, df, barplot >>
runtimeVars == << red_player_data, blue_player_data, ax1_bars, ax2_bars >>


(***************************************************************************)
(* The __main__ block: the three calls, in this order.                     *)
(***************************************************************************)
\* Mutant of Pipelines: the win-rate chart is called before the heatmaps.
PipelinesWinRateFirst == << "win_rate", "heatmaps", "runtime" >>

Pipelines == << "heatmaps", "win_rate", "runtime" >>

\* Where control goes when pipeline p returns.
After(p) ==
    LET k == CHOOSE n \in 1..Len(Pipelines) : Pipelines[n] = p
    IN  IF k < Len(Pipelines) THEN Pipelines[k + 1] ELSE "done"

(***************************************************************************)
(* create_tournament_heatmaps                                              *)
(***************************************************************************)
NRows(M) == Len(M)
NCols(M) == IF Len(M) = 0 THEN 0 ELSE Len(M[1])

\* pd.DataFrame(matrix, index=labels, columns=labels) accepts the values
\* only when their shape is (len(labels), len(labels)).
ShapeMatches(M, labels) ==
    NRows(M) = Len(labels) /\ NCols(M) = Len(labels)

\* DataFrame.transpose()
transpose(M) ==
    [c \in 1..NCols(M) |-> [r \in 1..NRows(M) |-> M[r][c]]]

\* Mutant of Complement: x - 1 written for 1 - x.
ComplementReversed(x) == IF notna(x) THEN FSub(x, One) ELSE NaN

\* lambda x: 1 - x if pd.notna(x) else np.nan
Complement(x) == IF notna(x) THEN FSub(One, x) ELSE NaN

\* Mutant of flip: the transpose() call left out.
flipNoTranspose(M) ==
    [r \in 1..NRows(M) |-> [c \in 1..NCols(M) |-> Complement(M[r][c])]]

\* df_red.transpose().map(lambda x: 1 - x if pd.notna(x) else np.nan):
\* DataFrame.map applies the lambda to every cell of the transposed frame.
flip(M) ==
    LET T == transpose(M)
    IN  [r \in 1..NRows(T) |-> [c \in 1..NCols(T) |-> Complement(T[r][c])]]

\* Mutant of CellText: the two texts exchanged.
CellTextExchanged(x) == IF FEq(x, One) THEN "Loss" ELSE "Win"

\* "Win" if df.iloc[i, j] == 1 else "Loss"
CellText(x) == IF FEq(x, One) THEN "Win" ELSE "Loss"

\* The two nested range(len(heuristics_labels)) loops, row by row.
LastIndex(r, c) ==
    r = Len(heuristics_labels) /\ c = Len(heuristics_labels)
NextI(r, c) == IF c < Len(heuristics_labels) THEN r ELSE r + 1
NextJ(r, c) == IF c < Len(heuristics_labels) THEN c + 1 ELSE 1

\* Mutant of BuildDfRed: the frame built without index= and columns=, so
\* that pandas has no shape to check the values against.
BuildDfRedUnchecked ==
    /\ pc = "heatmaps"
    /\ df_red' = matrix
    /\ i' = 1
    /\ j' = 1
    /\ pc' = "annot_red"
    /\ UNCHANGED << err, saved, matrix, heuristics_labels, df_blue, ax1_text,
                    ax2_text, rateVars, runtimeVars >>

\* Lines 15-31: the matrix, the labels, df_red; a shape mismatch raises
\* pandas' ValueError ("Shape of passed values is ..., indices imply ...")
\* out of create_tournament_heatmaps and out of the program.
BuildDfRed ==
    /\ pc = "heatmaps"
    /\ IF ShapeMatches(matrix, heuristics_labels)
       THEN /\ df_red' = matrix
            /\ i' = 1
            /\ j' = 1
            /\ pc' = "annot_red"
            /\ err' = err
       ELSE /\ err' = "ValueError"
            /\ pc' = "aborted"
            /\ UNCHANGED << df_red, i, j >>
    /\ UNCHANGED << saved, matrix, heuristics_labels, df_blue, ax1_text,
                    ax2_text, rateVars, runtimeVars >>

\* Lines 45-49: one pass of the inner loop's body on df_red.
AnnotateRed ==
    /\ pc = "annot_red"
    /\ ax1_text' = IF i = j THEN ax1_text
                   ELSE Append(ax1_text, <<i, j, CellText(df_red[i][j])>>)
    /\ IF LastIndex(i, j)
       THEN pc' = "save_red" /\ UNCHANGED << i, j >>
       ELSE pc' = pc /\ i' = NextI(i, j) /\ j' = NextJ(i, j)
    /\ UNCHANGED << err, saved, matrix, heuristics_labels, df_red, df_blue,
                    ax2_text, rateVars, runtimeVars >>

\* Lines 51-53
SaveRed ==
    /\ pc = "save_red"
    /\ saved' = Append(saved, "tournament_grid_red_wins.png")
    /\ pc' = "flip"
    /\ UNCHANGED << err, heatVars, rateVars, runtimeVars >>

\* Line 56
Flip ==
    /\ pc = "flip"
    /\ df_blue' = flip(df_red)
    /\ i' = 1
    /\ j' = 1
    /\ pc' = "annot_blue"
    /\ UNCHANGED << err, saved, matrix, heuristics_labels, df_red, ax1_text,
                    ax2_text, rateVars, runtimeVars >>

\* Lines 69-73: one pass of the inner loop's body on df_blue.
AnnotateBlue ==
    /\ pc = "annot_blue"
    /\ ax2_text' = IF i = j THEN ax2_text
                   ELSE Append(ax2_text, <<i, j, CellText(df_blue[i][j])>>)
    /\ IF LastIndex(i, j)
       THEN pc' = "save_blue" /\ UNCHANGED << i, j >>
       ELSE pc' = pc /\ i' = NextI(i, j) /\ j' = NextJ(i, j)
    /\ UNCHANGED << err, saved, matrix, heuristics_labels, df_red, df_blue,
                    ax1_text, rateVars, runtimeVars >>

\* Lines 75-77, and the return to __main__
SaveBlue ==
    /\ pc = "save_blue"
    /\ saved' = Append(saved, "tournament_grid_blue_wins.png")
    /\ pc' = After("heatmaps")
    /\ UNCHANGED << err, heatVars, rateVars, runtimeVars >>

(***************************************************************************)
(* create_win_rate_chart                                                   *)
(***************************************************************************)
\* Mutant of WinRate: wins divided by losses, not by the games played.
WinRateOverLosses(wins, losses) == FMul(FDiv(F(wins), F(losses)), F(100))

\* (df['Wins'] / (df['Wins'] + df['Losses'])) * 100, for one row
WinRate(wins, losses) == FMul(FDiv(F(wins), F(wins + losses)), F(100))

\* Orders of the rows 1..n, as sequences of row numbers.
Orders(n) ==
    { p \in [1..n -> 1..n] : \A a, b \in 1..n : a # b => p[a] # p[b] }

\* Mutant of sort_values: ascending=False left out.
sort_values_ascending(rates) ==
    { p \in Orders(Len(rates)) :
        \A a, b \in 1..Len(rates) :
            a < b =>
                /\ ~FLess(rates[p[b]], rates[p[a]])
                /\ isna(rates[p[a]]) => isna(rates[p[b]])
                /\ (isna(rates[p[a]]) /\ isna(rates[p[b]])) => p[a] < p[b] }

\* df.sort_values('Win Rate (%)', ascending=False): the row orders it can
\* return for the column `rates`.  Rows without a NaN come first, from the
\* highest rate to the lowest; rows with NaN come last (na_position='last')
\* in their input order.  kind is left at its default 'quicksort', which is
\* not a stable sort: rows of equal rate come in an order the numpy build
\* decides, so each of their orders is a possible result.
sort_values(rates) ==
    { p \in Orders(Len(rates)) :
        \A a, b \in 1..Len(rates) :
            a < b =>
                /\ ~FLess(rates[p[a]], rates[p[b]])
                /\ isna(rates[p[a]]) => isna(rates[p[b]])
                /\ (isna(rates[p[a]]) /\ isna(rates[p[b]])) => p[a] < p[b] }

RECURSIVE DropNaN(_)
DropNaN(bars) ==
    IF bars = << >> THEN << >>
    ELSE IF isna(Head(bars)[2]) THEN DropNaN(Tail(bars))
         ELSE << Head(bars) >> \o DropNaN(Tail(bars))

\* Lines 84-96: the table and its 'Win Rate (%)' column.  The division is
\* numpy's: a row with no games gets NaN and nothing is raised.
ComputeWinRate ==
    /\ pc = "win_rate"
    /\ df' = [ Heuristic |-> data.Heuristic,
               Wins      |-> data.Wins,
               Losses    |-> data.Losses,
               WinRate   |-> [k \in 1..Len(data.Wins) |->
                                 WinRate(data.Wins[k], data.Losses[k])] ]
    /\ pc' = "rate_plot"
    /\ UNCHANGED << err, saved, heatVars, data, barplot, runtimeVars >>

\* Lines 98-116: sns.barplot on the sorted frame draws one bar per
\* Heuristic value in the order the sorted rows give them (the labels of a
\* table are distinct).  A row whose rate is NaN gets a bar of height NaN or
\* no bar, depending on the seaborn version.
PlotWinRate ==
    /\ pc = "rate_plot"
    /\ \E p \in sort_values(df.WinRate) :
       \E keepNaN \in BOOLEAN :
          LET bars == [k \in 1..Len(p) |->
                         << df.Heuristic[p[k]], df.WinRate[p[k]] >>]
          IN  barplot' = IF keepNaN THEN bars ELSE DropNaN(bars)
    /\ pc' = "rate_save"
    /\ UNCHANGED << err, saved, heatVars, data, df, runtimeVars >>

\* Lines 118-120, and the return to __main__
SaveWinRate ==
    /\ pc = "rate_save"
    /\ saved' = Append(saved, "win_rate_chart.png")
    /\ pc' = After("win_rate")
    /\ UNCHANGED << err, heatVars, rateVars, runtimeVars >>

(***************************************************************************)
(* create_runtime_charts                                                   *)
(***************************************************************************)
\* sns.barplot(x=<heuristic column>, y='Average Game Time (s)', data=table):
\* one bar per row, in the table's row order (the labels are distinct).
Bars(table) ==
    [k \in 1..Len(table.Time) |-> << table.Heuristic[k], table.Time[k] >>]

\* Lines 144-148
Plot1 ==
    /\ pc = "runtime"
    /\ ax1_bars' = Bars(red_player_data)
    /\ pc' = "plot2"
    /\ UNCHANGED << err, saved, heatVars, rateVars, red_player_data,
                    blue_player_data, ax2_bars >>

\* Mutant of Plot2: the right chart drawn from the Red table.
Plot2FromRed ==
    /\ pc = "plot2"
    /\ ax2_bars' = Bars(red_player_data)
    /\ pc' = "runtime_save"
    /\ UNCHANGED << err, saved, heatVars, rateVars, red_player_data,
                    blue_player_data, ax1_bars >>

\* Lines 151-155
Plot2 ==
    /\ pc = "plot2"
    /\ ax2_bars' = Bars(blue_player_data)
    /\ pc' = "runtime_save"
    /\ UNCHANGED << err, saved, heatVars, rateVars, red_player_data,
                    blue_player_data, ax1_bars >>

\* Lines 157-159, and the return to __main__
SaveRuntime ==
    /\ pc = "runtime_save"
    /\ saved' = Append(saved, "runtime_charts.png")
    /\ pc' = After("runtime")
    /\ UNCHANGED << err, heatVars, rateVars, runtimeVars >>

(***************************************************************************)
(* The tables a run starts from.                                           *)
(***************************************************************************)
OffDiagonal(r, c) == { rc \in (1..r) \X (1..c) : rc[1] # rc[2] }

\* The r x c outcome matrices: 0 or 1 off the diagonal, NaN on it.
Matrices(r, c) ==
    { [a \in 1..r |-> [b \in 1..c |->
          IF a = b THEN NaN ELSE F(f[<<a, b>>])]] :
      f \in [OffDiagonal(r, c) -> {0, 1}] }

Prefix(s, n) == [k \in 1..n |-> s[k]]

\* Win/loss tables of n rows with counters up to MaxGames.
DataTables(n) ==
    { [ Heuristic |-> Prefix(LiteralData.Heuristic, n),
        Wins      |-> [k \in 1..n |-> wl[k][1]],
        Losses    |-> [k \in 1..n |-> wl[k][2]] ] :
      wl \in [1..n -> (0..MaxGames) \X (0..MaxGames)] }

\* The records A: 7/1, B: 4/4, C: 2/6.
ExampleData ==
    [ Heuristic |-> <<"A", "B", "C">>,
      Wins      |-> <<7, 4, 2>>,
      Losses    |-> <<1, 4, 6>> ]

Times == {50, 74, 126}

TimingTables(n) ==
    { [ Heuristic |-> Prefix(RuntimeLabels, n), Time |-> t ] :
      t \in [1..n -> Times] }

\* The state before anything has run.
InitRun ==
    /\ err = "none"
    /\ saved = << >>
    /\ df_red = << >>
    /\ df_blue = << >>
    /\ i = 0
    /\ j = 0
    /\ ax1_text = << >>
    /\ ax2_text = << >>
    /\ df = << >>
    /\ barplot = << >>
    /\ ax1_bars = << >>
    /\ ax2_bars = << >>

LiteralHeat ==
    matrix = LiteralMatrix /\ heuristics_labels = LiteralLabels
LiteralRate == data = LiteralData
LiteralRuntime ==
    /\ red_player_data = LiteralRedPlayerData
    /\ blue_player_data = LiteralBluePlayerData

\* The program: __main__ on the literal tables, or on the literal tables
\* with the matrix and its labels replaced by others of the same form (any
\* shape up to MaxN x MaxN, any number of labels up to MaxN).
Init ==
    /\ InitRun
    /\ pc = Pipelines[1]
    /\ \/ LiteralHeat
       \/ \E n \in 1..MaxN, r \in 1..MaxN, c \in 1..MaxN :
             /\ heuristics_labels = Prefix(LiteralLabels, n)
             /\ matrix \in Matrices(r, c)
    /\ LiteralRate
    /\ LiteralRuntime

Next ==
    \/ BuildDfRed
    \/ AnnotateRed
    \/ SaveRed
    \/ Flip
    \/ AnnotateBlue
    \/ SaveBlue
    \/ ComputeWinRate
    \/ PlotWinRate
    \/ SaveWinRate
    \/ Plot1
    \/ Plot2
    \/ SaveRuntime

Spec == Init /\ [][Next]_vars

\* create_win_rate_chart called on its own, on the literal table, the
\* records A, B, C, or any table of up to MaxRec records.
InitWinRate ==
    /\ InitRun
    /\ pc = "win_rate"
    /\ LiteralHeat
    /\ \/ data \in {LiteralData, ExampleData}
       \/ \E n \in 1..MaxRec : data \in DataTables(n)
    /\ LiteralRuntime

NextWinRate ==
    \/ ComputeWinRate
    \/ PlotWinRate
    \/ SaveWinRate

SpecWinRate == InitWinRate /\ [][NextWinRate]_vars

\* create_runtime_charts called on its own, on the literal tables or any
\* two tables of up to MaxCat categories.
InitRuntime ==
    /\ InitRun
    /\ pc = "runtime"
    /\ LiteralHeat
    /\ LiteralRate
    /\ \/ LiteralRuntime
       \/ \E n \in 1..MaxCat :
             /\ red_player_data \in TimingTables(n)
             /\ blue_player_data \in TimingTables(n)

NextRuntime ==
    \/ Plot1
    \/ Plot2
    \/ SaveRuntime

SpecRuntime == InitRuntime /\ [][NextRuntime]_vars

(***************************************************************************)
(* Properties.                                                             *)
(***************************************************************************)
N == Len(heuristics_labels)

FlipDone == df_blue # << >>
RedLoopDone == df_red # << >> /\ pc # "annot_red"
BlueLoopDone == df_blue # << >> /\ pc # "annot_blue"
RateComputed == df # << >>
RateDrawn == df # << >> /\ pc # "rate_plot"

\* C1: the Blue frame is the transpose of the Red frame with every defined
\* cell complemented: it is N x N, for every a # b a 1 at Red (a, b) is a 0
\* at Blue (b, a) and a 0 is a 1, every diagonal cell of Blue is undefined,
\* and the flip raises nothing (N = 1 included).
C1_FlipIsTransposeComplement ==
    FlipDone =>
        /\ err = "none"
        /\ NRows(df_blue) = N
        /\ \A a \in 1..N : Len(df_blue[a]) = N
        /\ \A a, b \in 1..N :
              IF a = b THEN isna(df_blue[a][a])
              ELSE /\ df_blue[b][a] \in {Zero, One}
                   /\ df_red[a][b] = One => df_blue[b][a] = Zero
                   /\ df_red[a][b] = Zero => df_blue[b][a] = One

\* C1's case: M[0][1] = 1 and M[1][0] = 0 were flipped, flip(M)[1][0] = 0.
C1_Witness ==
    /\ FlipDone
    /\ N >= 2
    /\ df_red[1][2] = One
    /\ df_red[2][1] = Zero
    /\ df_blue[2][1] = Zero

\* C2: flipping the Blue frame again gives back the Red frame on every
\* off-diagonal cell.
C2_FlipTwiceRestores ==
    FlipDone =>
        LET twice == flip(df_blue)
        IN  \A a, b \in 1..N : a # b => twice[a][b] = df_red[a][b]

\* C2's case: a frame was flipped, the flip changed its (0, 1) cell from 1
\* to 0, and the second flip gives 1 again.
C2_Witness ==
    /\ FlipDone
    /\ N >= 2
    /\ df_red[1][2] = One
    /\ df_blue[1][2] = Zero
    /\ flip(df_blue)[1][2] = One

\* The text calls made for cell (a, b).
TextsAt(texts, a, b) ==
    { k \in 1..Len(texts) : texts[k][1] = a /\ texts[k][2] = b }

LabelsMatch(texts, frame) ==
    \A a, b \in 1..N :
        IF a = b THEN TextsAt(texts, a, b) = {}
        ELSE /\ Cardinality(TextsAt(texts, a, b)) = 1
             /\ \A k \in TextsAt(texts, a, b) :
                   /\ texts[k][3] = "Win" <=> frame[a][b] = One
                   /\ texts[k][3] = "Loss" <=> frame[a][b] = Zero

\* C3: once a heatmap's annotation loop has finished, every off-diagonal
\* cell carries exactly one label, "Win" exactly when its value is 1 and
\* "Loss" exactly when it is 0, and no diagonal cell carries a label; while
\* a loop runs no cell carries two labels.
C3_AnnotationsMatchCells ==
    /\ RedLoopDone => LabelsMatch(ax1_text, df_red)
    /\ BlueLoopDone => LabelsMatch(ax2_text, df_blue)
    /\ \A a, b \in 1..N :
          /\ Cardinality(TextsAt(ax1_text, a, b)) <= 1
          /\ Cardinality(TextsAt(ax2_text, a, b)) <= 1

\* C3's case: both loops have finished on a frame that has a win and a loss.
C3_Witness ==
    /\ RedLoopDone
    /\ BlueLoopDone
    /\ N >= 2
    /\ \E k \in 1..Len(ax1_text) : ax1_text[k][3] = "Win"
    /\ \E k \in 1..Len(ax2_text) : ax2_text[k][3] = "Win"
    /\ \E k \in 1..Len(ax2_text) : ax2_text[k][3] = "Loss"

\* C4: for every record with wins + losses > 0 the computed win rate is the
\* number r with r * (wins + losses) = wins * 100; 7/1 gives 87.5 (175/2)
\* and 2/6 gives 25.
C4_WinRateFormula ==
    RateComputed =>
        \A k \in 1..Len(df.Wins) :
            LET w == df.Wins[k]
                l == df.Losses[k]
                r == df.WinRate[k]
            IN  w + l > 0 =>
                  /\ r[2] > 0
                  /\ r[1] * (w + l) = 100 * w * r[2]
                  /\ (w = 7 /\ l = 1) => r = <<175, 2>>
                  /\ (w = 2 /\ l = 6) => r = <<25, 1>>

\* C4's case: the literal table's first and last rows have their rates.
C4_Witness ==
    /\ RateComputed
    /\ Len(df.Wins) = 5
    /\ df.Wins[1] = 7 /\ df.Losses[1] = 1 /\ df.WinRate[1] = <<175, 2>>
    /\ df.Wins[5] = 2 /\ df.Losses[5] = 6 /\ df.WinRate[5] = <<25, 1>>

\* The input row of the bar at position a.
InputRow(a) ==
    CHOOSE k \in 1..Len(data.Heuristic) : data.Heuristic[k] = barplot[a][1]

\* C5 as stated: the bars are in descending order of win rate and the sort
\* is stable, bars of equal win rate standing in their input order.
C5_SortedStable ==
    RateDrawn =>
        \A a, b \in 1..Len(barplot) :
            a < b =>
                /\ ~FLess(barplot[a][2], barplot[b][2])
                /\ FEq(barplot[a][2], barplot[b][2]) =>
                      InputRow(a) < InputRow(b)

\* C5 as amended: no bar stands left of a bar with a higher win rate, every
\* bar is one input row with that row's rate, every row with a defined rate
\* has its bar, no row has two, and A: 7/1, B: 4/4, C: 2/6 come out A, B, C.
\* Bars of equal win rate may stand in either order.
C5_SortedDescending ==
    RateDrawn =>
        /\ \A a, b \in 1..Len(barplot) :
              a < b =>
                /\ ~FLess(barplot[a][2], barplot[b][2])
                /\ barplot[a][1] # barplot[b][1]
        /\ \A a \in 1..Len(barplot) :
              \E k \in 1..Len(df.Heuristic) :
                 barplot[a] = << df.Heuristic[k], df.WinRate[k] >>
        /\ \A k \in 1..Len(df.Heuristic) :
              notna(df.WinRate[k]) =>
                 \E a \in 1..Len(barplot) : barplot[a][1] = df.Heuristic[k]
        /\ data.Heuristic = <<"A", "B", "C">> /\ data.Wins = <<7, 4, 2>>
              /\ data.Losses = <<1, 4, 6>>
              => [a \in 1..Len(barplot) |-> barplot[a][1]] = <<"A", "B", "C">>

\* C5's case: the sort moved a row: the first bar is not the first input row
\* and is higher than the second bar.
C5_Witness ==
    /\ RateDrawn
    /\ Len(barplot) >= 2
    /\ barplot[1][1] # data.Heuristic[1]
    /\ FLess(barplot[2][2], barplot[1][2])

HasZeroRecord ==
    \E k \in 1..Len(data.Wins) : data.Wins[k] + data.Losses[k] = 0

\* C6: a table with a record of 0 wins and 0 losses makes the win-rate
\* pipeline fail with InvalidRecordError: no win-rate column and no bar
\* exist for it unless that error was raised.
C6_ZeroGamesRaises ==
    HasZeroRecord =>
        \/ df = << >> /\ barplot = << >>
        \/ err = "InvalidRecordError"

NonSquare == NRows(matrix) # NCols(matrix)

\* C7: a non-square matrix never gets a flipped frame: the run fails with
\* the shape error (pandas' ValueError for values whose shape is not the
\* labels') when the frame is built, before the flip.
C7_NonSquareFails ==
    NonSquare =>
        /\ df_blue = << >>
        /\ pc \in {"heatmaps", "aborted"}
        /\ pc = "aborted" => err = "ValueError"

\* C7's case: a non-square matrix was given and the run has failed.
C7_Witness ==
    /\ NonSquare
    /\ pc = "aborted"
    /\ err = "ValueError"
    /\ df_blue = << >>

Artifacts ==
    << "tournament_grid_red_wins.png", "tournament_grid_blue_wins.png",
       "win_rate_chart.png", "runtime_charts.png" >>

\* C8: the files are written in the order red grid, blue grid, win-rate
\* chart, runtime charts, each once; both grids are written before the
\* win-rate pipeline starts and the win-rate chart before the runtime
\* pipeline starts; a run that completes has written all four.
C8_PipelineOrder ==
    /\ \E n \in 0..Len(Artifacts) : saved = Prefix(Artifacts, n)
    /\ pc \in {"heatmaps", "annot_red", "save_red"} => Len(saved) = 0
    /\ pc \in {"flip", "annot_blue", "save_blue"} => Len(saved) = 1
    /\ pc \in {"win_rate", "rate_plot", "rate_save"} => Len(saved) = 2
    /\ pc \in {"runtime", "plot2", "runtime_save"} => Len(saved) = 3
    /\ pc = "done" => saved = Artifacts

\* C8's case: a run has completed.
C8_Witness == pc = "done" /\ saved = Artifacts /\ err = "none"

\* C9: each runtime chart shows its own table's rows, in the table's order
\* and with the table's values, whatever the other table holds.
C9_RuntimeTablesIndependent ==
    /\ ax1_bars # << >> =>
          /\ Len(ax1_bars) = Len(red_player_data.Time)
          /\ \A k \in 1..Len(ax1_bars) :
                ax1_bars[k] = << red_player_data.Heuristic[k],
                                 red_player_data.Time[k] >>
    /\ ax2_bars # << >> =>
          /\ Len(ax2_bars) = Len(blue_player_data.Time)
          /\ \A k \in 1..Len(ax2_bars) :
                ax2_bars[k] = << blue_player_data.Heuristic[k],
                                 blue_player_data.Time[k] >>

\* C9's case: both charts are drawn from two tables that differ, the Blue
\* table not being in sorted order.
C9_Witness ==
    /\ pc = "done"
    /\ saved = << "runtime_charts.png" >>
    /\ Len(ax2_bars) >= 2
    /\ red_player_data.Time # blue_player_data.Time
    /\ blue_player_data.Time[1] < blue_player_data.Time[2]
    /\ ax1_bars[1][2] # ax2_bars[1][2]

\* The matrix row of each row of the win/loss table (P=0, O=1, T=2, C=3,
\* R=4 in the source; the table lists P, C, O, R, T).
MatrixRow == <<1, 4, 2, 5, 3>>

MatrixWins(h) ==
    Cardinality({ c \in 1..NCols(matrix) : c # h /\ matrix[h][c] = One })
    + Cardinality({ r \in 1..NRows(matrix) : r # h /\ matrix[r][h] = Zero })

MatrixLosses(h) ==
    Cardinality({ c \in 1..NCols(matrix) : c # h /\ matrix[h][c] = Zero })
    + Cardinality({ r \in 1..NRows(matrix) : r # h /\ matrix[r][h] = One })

RECURSIVE Sum(_)
Sum(s) == IF s = << >> THEN 0 ELSE Head(s) + Sum(Tail(s))

\* C10: the literal win/loss table agrees with the literal matrix: each
\* heuristic's Wins are the 1s of its row plus the 0s of its column, its
\* Losses the 0s of its row plus the 1s of its column, and the Wins and the
\* Losses have the same total.
C10_TableAgreesWithMatrix ==
    (matrix = LiteralMatrix /\ data = LiteralData) =>
        /\ \A k \in 1..Len(data.Wins) :
              /\ data.Wins[k] = MatrixWins(MatrixRow[k])
              /\ data.Losses[k] = MatrixLosses(MatrixRow[k])
        /\ Sum(data.Wins) = Sum(data.Losses)

=============================================================================
